---- MODULE Spec2Model ----
(***************************************************************************)
(* Model of src/src/App.jsx: the secant root finder `solve`, the trial     *)
(* evaluation `calculateAll` (extraction and stripping simulators), the    *)
(* objective function of the outer V% search, and the App component's      *)
(* runSolver / calculationTask / delivery timers.                          *)
(*                                                                         *)
(* Numbers.  The program computes in IEEE doubles.  The model computes on  *)
(* an integer grid: one tick is 0.1 of the program's unit, so the seed     *)
(* offset 0.1 of solve is 1 tick, V% = 17.1 is 171 ticks and the upper     *)
(* limit 50 of V% is 500 ticks.  Percentages (efficiencies, percentageML)  *)
(* and the O/A ratio are kept in hundredths.  A residual is below the      *)
(* tolerance exactly when it is 0 ticks.  A quotient is rounded to the     *)
(* nearest tick; a quotient with a zero divisor is NaN (0/0) or infinite   *)
(* (n/0), as in the program.                                               *)
(***************************************************************************)
EXTENDS Integers, Sequences, FiniteSets, TLC

VARIABLES
    inputs,      \* useState: the twelve input fields (line 9)
    results,     \* useState: the displayed result, or null (line 24)
    isLoading,   \* useState (line 25)
    error,       \* useState: the displayed message, or null (line 26)
    initialRun,  \* useState (line 28)
    timers,      \* the pending setTimeout callbacks of the solves, oldest first
    runs,        \* number of runSolver invocations so far
    reports,     \* per invocation: the outcome deliveries made for it
    sv,          \* the state of one run of solve (x0, x1, f0, f1, i, ...)
    sp           \* the arguments of that run of solve

vars == <<inputs, results, isLoading, error, initialRun, timers, runs,
          reports, sv, sp>>
appVars == <<inputs, results, isLoading, error, initialRun, timers, runs,
             reports>>

----------------------------------------------------------------------------
(* Arithmetic on the grid *)

Abs(n) == IF n < 0 THEN -n ELSE n

\* n / d for d # 0, rounded to the nearest tick
RoundDiv(n, d) ==
    IF d > 0 THEN (2 * n + d) \div (2 * d)
             ELSE (2 * (-n) + (-d)) \div (2 * (-d))

----------------------------------------------------------------------------
(* solve: App.jsx lines 48-68 *)

Tolerance == 1          \* tolerance = 1e-7: |f| < Tolerance iff f = 0 ticks
MaxIterations == 100    \* maxIterations = 100
SeedOffset == 1         \* initialGuess -/+ 0.1
SeedClamp == 1          \* if (x0 <= 0) x0 = 0.1

\* mutant of SecantUpdate: a flat objective (f1 = f0) moves the candidate
\* one seed offset on instead of dividing by zero
SecantUpdate_StepOnFlat(x0, x1, f0, f1) ==
    LET num == f1 * (x1 - x0)
        den == f1 - f0
    IN  IF den = 0
        THEN [kind |-> "num", v |-> x1 + SeedOffset]
        ELSE [kind |-> "num", v |-> x1 - RoundDiv(num, den)]

\* line 58: x2 = x1 - f1 * (x1 - x0) / (f1 - f0), with the double's special
\* values: 0/0 is NaN, n/0 is infinite
SecantUpdate(x0, x1, f0, f1) ==
    LET num == f1 * (x1 - x0)
        den == f1 - f0
    IN  IF den = 0
        THEN IF num = 0 THEN [kind |-> "nan", v |-> 0]
                        ELSE [kind |-> "inf", v |-> 0]
        ELSE [kind |-> "num", v |-> x1 - RoundDiv(num, den)]

\* mutant of InvalidX2: the test x2 <= 0 is left out
InvalidX2_NoSignTest(x2) == x2.kind = "nan" \/ x2.kind = "inf"

\* line 59: isNaN(x2) || !isFinite(x2) || x2 <= 0
InvalidX2(x2) == x2.kind = "nan" \/ x2.kind = "inf" \/ x2.v <= 0

\* lines 49-54: the two seeds and their evaluations
SolveStart(obj, initialGuess) ==
    LET x0raw == initialGuess - SeedOffset
        x1 == initialGuess + SeedOffset
        x0 == IF x0raw <= 0 THEN SeedClamp ELSE x0raw
    IN  [x0 |-> x0, x1 |-> x1, f0 |-> obj[x0], f1 |-> obj[x1], i |-> 0,
         status |-> "run", evals |-> <<x0, x1>>,
         fs |-> <<obj[x0], obj[x1]>>]

\* mutant of SolveStep: the loop test is i <= maxIterations
SolveStep_OneMore(obj, s, tolerance, maxIterations) ==
    IF ~(s.i <= maxIterations)
    THEN [s EXCEPT !.status = "notConverged"]
    ELSE IF Abs(s.f1) < tolerance
    THEN [s EXCEPT !.status = "returned"]
    ELSE LET x2 == SecantUpdate(s.x0, s.x1, s.f0, s.f1)
         IN  IF InvalidX2(x2)
             THEN [s EXCEPT !.status = "diverged"]
             ELSE [s EXCEPT !.x0 = s.x1, !.f0 = s.f1, !.x1 = x2.v,
                            !.f1 = obj[x2.v], !.i = s.i + 1,
                            !.evals = Append(s.evals, x2.v),
                            !.fs = Append(s.fs, obj[x2.v])]

\* lines 56-67: one pass through the loop head and body, or the loop's exit
SolveStep(obj, s, tolerance, maxIterations) ==
    IF ~(s.i < maxIterations)
    THEN [s EXCEPT !.status = "notConverged"]
    ELSE IF Abs(s.f1) < tolerance
    THEN [s EXCEPT !.status = "returned"]
    ELSE LET x2 == SecantUpdate(s.x0, s.x1, s.f0, s.f1)
         IN  IF InvalidX2(x2)
             THEN [s EXCEPT !.status = "diverged"]
             ELSE [s EXCEPT !.x0 = s.x1, !.f0 = s.f1, !.x1 = x2.v,
                            !.f1 = obj[x2.v], !.i = s.i + 1,
                            !.evals = Append(s.evals, x2.v),
                            !.fs = Append(s.fs, obj[x2.v])]

RECURSIVE SolveLoop(_, _, _, _)
SolveLoop(obj, s, tolerance, maxIterations) ==
    IF s.status # "run" THEN s
    ELSE SolveLoop(obj, SolveStep(obj, s, tolerance, maxIterations),
                   tolerance, maxIterations)

\* the whole call: the final record has status "returned" (the value is x1),
\* "diverged" (line 60) or "notConverged" (line 67); evals and fs list the
\* points at which the objective was evaluated and the values it gave
solve(obj, initialGuess, tolerance, maxIterations) ==
    SolveLoop(obj, SolveStart(obj, initialGuess), tolerance, maxIterations)

----------------------------------------------------------------------------
(* calculateAll: App.jsx lines 358-575 *)

\* lines 361-380 with the coefficients of lines 395-400 / 501-506.  The
\* program takes one real root of the isotherm's cubic by Cardano's formulas
\* (cbrt, acos, cos) with coefficients built from fractional powers of V%;
\* none of that is integer arithmetic.  The grid stands in a saturating
\* curve for that root: it grows with the aqueous copper Cu_aq, is bounded by
\* the reagent capacity c / |d| (the zero of c + d * Cu_or) and is lowered
\* by the acidity a.  Only the curve's values are abstracted: where it is
\* called, with which arguments and what is done with its result follow the
\* program.
solveCubic(k, Cu_aq) ==
    LET capacity == RoundDiv(k.c * 1000, 3084)
    IN  RoundDiv(capacity * Cu_aq, Cu_aq + k.a)

\* lines 393-402 and 499-508: if (Cu_aq <= 0) return 0; else the cubic's root
getCu_or_from_Cu_aq(k, Cu_aq) ==
    IF Cu_aq <= 0 THEN 0 ELSE solveCubic(k, Cu_aq)

\* lines 421-425 and 432-436: the stage equation of an extraction stage
stage_solver_func(k, Y_out, X_in, o_a_ex, eff) ==
    [X_out_guess \in Int |->
        LET Y_eq == getCu_or_from_Cu_aq(k, X_out_guess)
            Y_in == Y_out - RoundDiv((X_in - X_out_guess) * 100, o_a_ex)
        IN  (Y_out - Y_in) - RoundDiv(eff * (Y_eq - Y_in), 100)]

\* what a trial that threw leaves behind: calculateAll's catch (line 571)
\* sees the error e; ml, lo, so are the extraction values computed before
\* the throw (0 where not yet computed); rootFinds counts the calls of solve
Thrown(e, ml, lo, so, n) ==
    [ok |-> FALSE, err |-> e, ml |-> ml, lo |-> lo, so |-> so,
     rootFinds |-> n]

\* lines 439-481: what extraction returns once both stages are solved
extractionReturn(ml, lo, X_in_E1, Y_out_E1, X_out_E1, Y_in_E1, X_out_E2, Y_in_E2) ==
    [ok |-> TRUE, ml |-> ml, lo |-> lo, so |-> Y_in_E2,
     raff |-> X_out_E2, rootFinds |-> 2,
     stage1 |-> [A |-> <<X_in_E1, Y_out_E1>>,
                 B |-> <<X_out_E1, Y_out_E1>>,
                 C |-> <<X_out_E1, Y_in_E1>>],
     stage2 |-> [A |-> <<X_out_E1, Y_in_E1>>,
                 B |-> <<X_out_E2, Y_in_E1>>,
                 C |-> <<X_out_E2, Y_in_E2>>]]

\* lines 437-438: s2 is the record of the stage-2 call of solve
extractionStage2(i, ml, lo, X_in_E1, Y_out_E1, X_out_E1, Y_in_E1, s2) ==
    LET Y_out_E2 == Y_in_E1
        X_in_E2 == X_out_E1
        X_out_E2 == s2.x1
        Y_in_E2 == Y_out_E2 - RoundDiv((X_in_E2 - X_out_E2) * 100, i.o_a_ex)
    IN  IF s2.status # "returned" THEN Thrown(s2.status, ml, lo, 0, 2)
        ELSE extractionReturn(ml, lo, X_in_E1, Y_out_E1, X_out_E1, Y_in_E1,
                              X_out_E2, Y_in_E2)

\* lines 426-437: s1 is the record of the stage-1 call of solve
extractionStage1(i, constants, ml, lo, s1) ==
    LET Y_out_E1 == lo
        X_in_E1 == i.plsCu
        X_out_E1 == s1.x1
        Y_in_E1 == Y_out_E1 - RoundDiv((X_in_E1 - X_out_E1) * 100, i.o_a_ex)
        \* Stage 2
        Y_out_E2 == Y_in_E1
        X_in_E2 == X_out_E1
    IN  IF s1.status # "returned" THEN Thrown(s1.status, ml, lo, 0, 1)
        ELSE extractionStage2(i, ml, lo, X_in_E1, Y_out_E1, X_out_E1, Y_in_E1,
                 solve(stage_solver_func(constants, Y_out_E2, X_in_E2,
                                         i.o_a_ex, i.effE2),
                       RoundDiv(15 * X_in_E2, 100), Tolerance, MaxIterations))

\* lines 383-481
extraction(i, V_percent) ==
    LET constants == [a |-> i.plsAcid + RoundDiv(154 * i.plsCu, 100),
                      c |-> RoundDiv(3303 * V_percent, 1000)]
        ml == getCu_or_from_Cu_aq(constants, i.plsCu)
        lo == RoundDiv(ml * i.percentageML, 100)
        \* Stage 1
        Y_out_E1 == lo
        X_in_E1 == i.plsCu
    IN  extractionStage1(i, constants, ml, lo,
            solve(stage_solver_func(constants, Y_out_E1, X_in_E1,
                                    i.o_a_ex, i.effE1),
                  RoundDiv(3 * X_in_E1, 10), Tolerance, MaxIterations))

\* mutant of LoNotAboveSo: only the zero divisor is refused
LoNotAboveSo_OnlyEqual(lo, so_ex) == lo = so_ex

\* line 487: if (lo <= so_ex) throw
LoNotAboveSo(lo, so_ex) == lo <= so_ex

\* lines 484-561
stripping(i, V_percent, ex) ==
    LET lo == ex.lo
        so_ex == ex.so
    IN  IF LoNotAboveSo(lo, so_ex)
        THEN Thrown("inconsistent", ex.ml, lo, so_ex, ex.rootFinds)
        ELSE
        LET o_a_st == RoundDiv((i.adCu - i.spCu) * 100, lo - so_ex)
            constants == [a |-> i.spAcid + RoundDiv(154 * i.spCu, 100),
                          c |-> RoundDiv(3303 * V_percent, 1000)]
            \* Stage 1
            Y_in_S1 == lo
            X_out_S1 == i.adCu
            Y_eq_S1 == getCu_or_from_Cu_aq(constants, X_out_S1)
            Y_out_S1 == Y_in_S1 - RoundDiv(i.effS1 * (Y_in_S1 - Y_eq_S1), 100)
            X_in_S1 == X_out_S1 - RoundDiv(o_a_st * (Y_in_S1 - Y_out_S1), 100)
            \* Stage 2
            Y_in_S2 == Y_out_S1
            X_out_S2 == X_in_S1
            Y_eq_S2 == getCu_or_from_Cu_aq(constants, X_out_S2)
            so == Y_in_S2 - RoundDiv(i.effS2 * (Y_in_S2 - Y_eq_S2), 100)
        IN  [ok |-> TRUE, so |-> so, o_a_st |-> o_a_st,
             stage1 |-> [A |-> <<X_out_S1, Y_in_S1>>,
                         B |-> <<X_out_S1, Y_out_S1>>,
                         C |-> <<X_in_S1, Y_out_S1>>,
                         D |-> <<X_out_S1, Y_eq_S1>>],
             stage2 |-> [A |-> <<X_out_S2, Y_in_S2>>,
                         B |-> <<X_out_S2, so>>,
                         C |-> <<i.spCu, so>>,
                         D |-> <<X_out_S2, Y_eq_S2>>]]

\* lines 358-575: the result record of lines 563-570, or, from the catch of
\* lines 571-574, null: a record with ok = FALSE (the fields besides ok are
\* what console.error and the discarded locals held, not part of null)
calculateAll(i, V_percent) ==
    LET ex == extraction(i, V_percent)
        st == stripping(i, V_percent, ex)
    IN  IF ~ex.ok THEN ex
        ELSE IF ~st.ok THEN st
        ELSE [ok |-> TRUE, v_percent |-> V_percent, extraction |-> ex,
              stripping |-> st,
              constraints |-> [so_consistency |-> ex.so - st.so]]

----------------------------------------------------------------------------
(* calculationTask: App.jsx lines 45-98 *)

Sentinel == 1000000     \* 1e9
InitialGuess == 171     \* 17.1
VMax == 500             \* 50

\* mutant of objectiveFunction: a failed trial counts as residual 0
objectiveFunction_ZeroOnFailure(i, V_percent_guess) ==
    LET res == calculateAll(i, V_percent_guess)
    IN  IF ~res.ok THEN 0 ELSE res.constraints.so_consistency

\* mutant of objectiveFunction: a failed trial yields the error code -1
objectiveFunction_MinusOne(i, V_percent_guess) ==
    LET res == calculateAll(i, V_percent_guess)
    IN  IF ~res.ok THEN -1 ELSE res.constraints.so_consistency

\* lines 71-75
objectiveFunction(i, V_percent_guess) ==
    LET res == calculateAll(i, V_percent_guess)
    IN  IF ~res.ok THEN Sentinel ELSE res.constraints.so_consistency

\* mutant of OutOfRange: the upper limit is not tested
OutOfRange_NoUpperLimit(optimalVPercent) == optimalVPercent <= 0

\* line 79: optimalVPercent <= 0 || optimalVPercent > 50
OutOfRange(optimalVPercent) == optimalVPercent <= 0 \/ optimalVPercent > VMax

\* mutant of FinalResults: the final calculation is made at the initial
\* guess instead of the optimum
FinalResults_AtGuess(i, optimalVPercent) == calculateAll(i, InitialGuess)

\* line 84: the final calculation with the optimal V%
FinalResults(i, optimalVPercent) == calculateAll(i, optimalVPercent)

\* mutant of calculationTask: no catch, a thrown error posts nothing
calculationTask_NoCatch(i) ==
    LET search == solve([V \in Int |-> objectiveFunction(i, V)],
                        InitialGuess, Tolerance, MaxIterations)
    IN  IF search.status # "returned" \/ OutOfRange(search.x1)
        THEN <<>>
        ELSE <<[kind |-> "results",
                finalResults |-> FinalResults(i, search.x1),
                search |-> search]>>

\* lines 46-97: the timeouts the task posts, in order.  Each path through
\* the try and the catch makes one setTimeout call: kind "results" is the
\* one of lines 87-90 (finalResults may be null), kind "error" the one of
\* lines 93-96 with e.message.  search is the record of the outer solve,
\* searches counts the calls of solve at line 78 and trials the calls of
\* calculateAll at lines 72 and 84.
calculationTask(i) ==
    LET search == solve([V \in Int |-> objectiveFunction(i, V)],
                        InitialGuess, Tolerance, MaxIterations)
        optimalVPercent == search.x1
    IN  IF search.status # "returned"
        THEN <<[kind |-> "error", message |-> search.status,
                search |-> search, searches |-> 1,
                trials |-> Len(search.evals)]>>
        ELSE IF OutOfRange(optimalVPercent)
        THEN <<[kind |-> "error", message |-> "outOfRange",
                search |-> search, searches |-> 1,
                trials |-> Len(search.evals)]>>
        ELSE <<[kind |-> "results",
                finalResults |-> FinalResults(i, optimalVPercent),
                search |-> search, searches |-> 1,
                trials |-> Len(search.evals) + 1]>>

----------------------------------------------------------------------------
(* The App component: App.jsx lines 7-103 *)

MaxRuns == 2            \* runSolver is invoked at most MaxRuns times

\* lines 9-22, in ticks and hundredths
DefaultInputs ==
    [plsFlow |-> 4000, plsCu |-> 70, plsAcid |-> 20, percentageML |-> 80,
     o_a_ex |-> 125, effE1 |-> 95, effE2 |-> 95, spCu |-> 350,
     spAcid |-> 1900, adCu |-> 500, effS1 |-> 98, effS2 |-> 98]

\* the values the user types into the input rows
FieldValues ==
    [plsCu |-> {0, 70, 200}, percentageML |-> {80, 100},
     adCu |-> {500, 600}]

Null == [ok |-> FALSE]      \* null as a result
NoMessage == "null"         \* null as an error message
NoOutcome == [kind |-> "none"]

\* the timeouts posted by the task of timer t
Posted(t, posts) ==
    [n \in 1..Len(posts) |->
        [id |-> t.id, inputs |-> t.inputs, pc |-> "posted",
         outcome |-> posts[n]]]

\* finalResults as a value of the results state: null stays null
AsValue(r) == IF r.ok THEN r ELSE Null

\* mutant of TaskInputs: the task reads the inputs current when it runs
TaskInputs_Current(captured, current) == current

\* line 72 and line 84: the inputs the task computes from are the ones its
\* closure captured when runSolver was invoked
TaskInputs(captured, current) == captured

Init ==
    /\ inputs = DefaultInputs
    /\ results = Null
    /\ isLoading = FALSE
    /\ error = NoMessage
    /\ initialRun = FALSE
    /\ timers = <<>>
    /\ runs = 0
    /\ reports = [id \in 1..MaxRuns |-> <<>>]
    /\ sv = [status |-> "unused"]
    /\ sp = [guess |-> 0]

\* lines 32-35
handleInputChange ==
    /\ \E name \in DOMAIN FieldValues :
         \E value \in FieldValues[name] :
            inputs' = [inputs EXCEPT ![name] = value]
    /\ UNCHANGED <<results, isLoading, error, initialRun, timers, runs,
                   reports, sv, sp>>

\* lines 38-43 and 101: the four state updates and setTimeout(calculationTask, 50)
runSolver ==
    /\ runs < MaxRuns
    /\ isLoading' = TRUE
    /\ error' = NoMessage
    /\ results' = Null
    /\ initialRun' = TRUE
    /\ runs' = runs + 1
    /\ timers' = Append(timers, [id |-> runs + 1, inputs |-> inputs,
                                 pc |-> "scheduled", outcome |-> NoOutcome])
    /\ UNCHANGED <<inputs, reports, sv, sp>>

\* lines 32-35: one more record the user can type, all fields positive: a
\* weak feed, little of it loaded, a spent electrolyte low in acid and an
\* advance electrolyte with less copper than the spent one
LowAcidInputs ==
    [DefaultInputs EXCEPT !.plsCu = 30, !.percentageML = 30, !.o_a_ex = 200,
                          !.spAcid = 10, !.adCu = 170, !.effS2 = 95]

\* lines 9-22 and 32-35: the input records the user can reach by typing
InputValues ==
    {[DefaultInputs EXCEPT !.plsCu = a, !.percentageML = b, !.adCu = c] :
        a \in FieldValues.plsCu, b \in FieldValues.percentageML,
        c \in FieldValues.adCu}
      \cup {LowAcidInputs}

\* lines 45-98: the task is a pure function of the inputs it reads; its
\* posts are tabulated once for every reachable input record
TaskTable == [i \in InputValues |-> calculationTask(i)]

\* lines 45-98: the 50 ms timer of the oldest solve that has not computed yet
\* fires; the task runs to its end and posts its outcome with setTimeout(.., 0)
calculationTaskFires ==
    /\ \E k \in 1..Len(timers) :
         /\ timers[k].pc = "scheduled"
         /\ \A j \in 1..(k - 1) : timers[j].pc = "posted"
         /\ timers' = SubSeq(timers, 1, k - 1)
                \o Posted(timers[k],
                          TaskTable[TaskInputs(timers[k].inputs, inputs)])
                \o SubSeq(timers, k + 1, Len(timers))
    /\ UNCHANGED <<inputs, results, isLoading, error, initialRun, runs,
                   reports, sv, sp>>

\* lines 87-90 and 93-96: the posted timeout of the oldest solve fires
outcomeDelivered ==
    /\ timers # <<>>
    /\ Head(timers).pc = "posted"
    /\ LET t == Head(timers)
       IN  /\ IF t.outcome.kind = "results"
              THEN /\ results' = AsValue(t.outcome.finalResults)
                   /\ UNCHANGED error
              ELSE /\ error' = t.outcome.message
                   /\ UNCHANGED results
           /\ reports' = [reports EXCEPT ![t.id] = Append(@, t.outcome.kind)]
    /\ isLoading' = FALSE
    /\ timers' = Tail(timers)
    /\ UNCHANGED <<inputs, initialRun, runs, sv, sp>>

Next ==
    \/ handleInputChange
    \/ runSolver
    \/ calculationTaskFires
    \/ outcomeDelivered

Spec == Init /\ [][Next]_vars

\* the component after the user has typed one of the input records; from
\* there on only solves are run
EnteredInit ==
    /\ inputs \in InputValues
    /\ results = Null
    /\ isLoading = FALSE
    /\ error = NoMessage
    /\ initialRun = FALSE
    /\ timers = <<>>
    /\ runs = 0
    /\ reports = [id \in 1..MaxRuns |-> <<>>]
    /\ sv = [status |-> "unused"]
    /\ sp = [guess |-> 0]

EnteredNext ==
    \/ runSolver
    \/ calculationTaskFires
    \/ outcomeDelivered

EnteredSpec == EnteredInit /\ [][EnteredNext]_vars

\* the browser runs every timer that is due
LiveSpec ==
    Spec /\ WF_vars(calculationTaskFires) /\ WF_vars(outcomeDelivered)

----------------------------------------------------------------------------
(* The root finder on its own: solve applied to bounded objectives *)

TabLen == 4             \* the objective is tabulated on 1..TabLen
MaxBudget == 3          \* iteration budgets 1..MaxBudget
MaxGuess == 2           \* initial guesses 0..MaxGuess
FVals == {-3, -2, 0, 1, 2}

\* the objective of the run: a table on 1..TabLen, one value elsewhere
ObjOf(p) == [x \in Int |-> IF x \in DOMAIN p.tbl THEN p.tbl[x] ELSE p.far]

NoRun == [x0 |-> 0, x1 |-> 0, f0 |-> 0, f1 |-> 0, i |-> 0,
          status |-> "idle", evals |-> <<>>, fs |-> <<>>]

SolveInit ==
    /\ sp \in [tbl : [1..TabLen -> FVals], far : FVals,
               guess : 0..MaxGuess, maxIter : 1..MaxBudget]
    /\ sv = NoRun
    /\ inputs = DefaultInputs
    /\ results = Null
    /\ isLoading = FALSE
    /\ error = NoMessage
    /\ initialRun = FALSE
    /\ timers = <<>>
    /\ runs = 0
    /\ reports = [id \in 1..MaxRuns |-> <<>>]

SolveCall ==
    /\ sv.status = "idle"
    /\ sv' = SolveStart(ObjOf(sp), sp.guess)
    /\ UNCHANGED <<sp, appVars>>

SolveIterate ==
    /\ sv.status = "run"
    /\ sv' = SolveStep(ObjOf(sp), sv, Tolerance, sp.maxIter)
    /\ UNCHANGED <<sp, appVars>>

SolveNext == SolveCall \/ SolveIterate

SolveSpec == SolveInit /\ [][SolveNext]_vars

\* the component after an input record was typed, or the root finder alone
AnySolveInit == EnteredInit \/ SolveInit

AnySolveNext ==
    \/ sv.status = "unused" /\ EnteredNext
    \/ SolveNext

AnySolveSpec == AnySolveInit /\ [][AnySolveNext]_vars
----------------------------------------------------------------------------
(* Properties of a solve *)

\* the outcomes computed by calculationTask and waiting to be delivered
PostedTimers == {timers[k] : k \in {j \in 1..Len(timers) : timers[j].pc = "posted"}}

\* the points at which the outer search on inputs i evaluates its objective
TrialPoints(i) ==
    LET ev == solve([V \in Int |-> objectiveFunction(i, V)],
                    InitialGuess, Tolerance, MaxIterations).evals
    IN  {ev[k] : k \in DOMAIN ev}

\* calculateAll, and its extraction circuit, at every trial point of every
\* reachable input record
TrialTable ==
    [i \in InputValues |->
        [V \in TrialPoints(i) |->
            [all |-> calculateAll(i, V), ex |-> extraction(i, V)]]]

\* the trial evaluation the outer search of posted timer t made at its k-th
\* evaluation point
Trial(t, k) == TrialTable[t.inputs][t.outcome.search.evals[k]].all

\* the extraction circuit of that trial alone
TrialExtraction(t, k) == TrialTable[t.inputs][t.outcome.search.evals[k]].ex

TrialIndexes(t) == 1..Len(t.outcome.search.evals)

Last(seq) == seq[Len(seq)]

\* C1: every result handed to setResults has a residual extraction.so -
\* stripping.so below the tolerance, and it is the residual of the trial on
\* which the outer search stopped.
SoConsistencyOfResult ==
    /\ results.ok =>
          Abs(results.extraction.so - results.stripping.so) < Tolerance
    /\ \A t \in PostedTimers :
          (t.outcome.kind = "results" /\ t.outcome.finalResults.ok) =>
             LET r == t.outcome.finalResults
             IN  /\ Abs(r.extraction.so - r.stripping.so) < Tolerance
                 /\ r.constraints.so_consistency = Last(t.outcome.search.fs)
                 /\ r.v_percent = Last(t.outcome.search.evals)

\* C1 witness: a result has been delivered and is displayed
ResultDelivered ==
    /\ results.ok
    /\ \E id \in 1..MaxRuns : reports[id] = <<"results">>

VPercentInRange ==
    /\ results.ok => (0 < results.v_percent /\ results.v_percent <= VMax)
    /\ \A t \in PostedTimers :
          LET s == t.outcome.search
          IN  /\ (s.status = "returned" /\ (s.x1 <= 0 \/ s.x1 > VMax)) =>
                    (t.outcome.kind = "error"
                       /\ t.outcome.message = "outOfRange")
              /\ (t.outcome.kind = "results" /\ t.outcome.finalResults.ok) =>
                    (0 < t.outcome.finalResults.v_percent
                       /\ t.outcome.finalResults.v_percent <= VMax)

\* C6 witness: the search converged above 50 and the out-of-range message
\* is displayed
OutOfRangeReported ==
    /\ error = "outOfRange"
    /\ ~results.ok
    /\ \E id \in 1..MaxRuns : reports[id] = <<"error">>

\* C9: a trial whose extraction circuit ends with LO <= SO fails with the
\* model-inconsistency error, so that every completed trial and every
\* displayed result has extraction.lo > extraction.so.
LoAboveSo ==
    /\ results.ok => results.extraction.lo > results.extraction.so
    /\ \A t \in PostedTimers :
          \A k \in TrialIndexes(t) :
             LET r == Trial(t, k)
                 ex == TrialExtraction(t, k)
             IN  /\ r.ok => r.extraction.lo > r.extraction.so
                 /\ (ex.ok /\ ex.lo <= ex.so) =>
                       (~r.ok /\ r.err = "inconsistent")

\* C9 witness: a trial of a posted solve failed in the stripping simulator
\* with LO = SO exactly
InconsistentTrial ==
    \E t \in PostedTimers :
       \E k \in TrialIndexes(t) :
          LET r == Trial(t, k)
          IN  ~r.ok /\ r.err = "inconsistent" /\ r.lo = r.so

\* C10, as claimed: with plsCu = 0 every trial has ML = 0 and LO = 0 and
\* fails with the model-inconsistency error of the stripping simulator.
ZeroFeedFailsInStripping ==
    \A t \in PostedTimers :
       t.inputs.plsCu = 0 =>
          \A k \in TrialIndexes(t) :
             LET r == Trial(t, k)
             IN  r.ml = 0 /\ r.lo = 0 /\ ~r.ok /\ r.err = "inconsistent"

----------------------------------------------------------------------------
(* Properties of the component's solves *)

\* C2: every invocation of runSolver leads to exactly one delivery for it,
\* of a result or of an error message, never more than one; and results and
\* error change only when runSolver resets them or an outcome is delivered.
EachSolveReportsOnce ==
    /\ \A id \in 1..MaxRuns : (runs >= id) ~> (Len(reports[id]) = 1)
    /\ [](\A id \in 1..MaxRuns : Len(reports[id]) <= 1)
    /\ [][(results' # results \/ error' # error) =>
            (runs' # runs \/ reports' # reports)]_vars

\* C2 witness: two invocations have each had their one delivery, one an
\* error and one a result
BothKindsReported ==
    \E a, b \in 1..MaxRuns :
       reports[a] = <<"error">> /\ reports[b] = <<"results">>

\* C3: what a solve delivers is what calculationTask yields on the inputs
\* captured at its invocation, whatever other solves and input changes
\* came in between.
SolvesDoNotInterfere ==
    [][(timers # <<>> /\ Head(timers).pc = "posted" /\ reports' # reports) =>
         LET t == Head(timers)
             alone == TaskTable[t.inputs][1]
         IN  /\ reports'[t.id] = Append(reports[t.id], alone.kind)
             /\ alone.kind = "results" =>
                   results' = AsValue(alone.finalResults)
             /\ alone.kind = "error" => error' = alone.message]_vars

\* C3 witness: two solves overlap, invoked with different inputs, and both
\* have computed different outcomes while the inputs have changed again
OverlappingSolves ==
    /\ Len(timers) = 2
    /\ timers[1].pc = "posted" /\ timers[2].pc = "posted"
    /\ timers[1].inputs # timers[2].inputs
    /\ timers[2].inputs # inputs
    /\ timers[1].outcome.kind # timers[2].outcome.kind

----------------------------------------------------------------------------
(* Properties of the root finder *)

\* C7: when the secant update x2 is NaN, infinite or <= 0 the call ends at
\* once with the divergence error: the objective is not evaluated again, no
\* iteration is counted, and nothing happens afterwards.
DivergesAtInvalidUpdate ==
    /\ [][(/\ sv.status = "run"
           /\ sv.i < sp.maxIter
           /\ Abs(sv.f1) >= Tolerance
           /\ LET den == sv.f1 - sv.f0
              IN  \/ den = 0
                  \/ sv.x1 - RoundDiv(sv.f1 * (sv.x1 - sv.x0), den) <= 0)
          => (/\ sv'.status = "diverged"
              /\ sv'.evals = sv.evals
              /\ sv'.fs = sv.fs
              /\ sv'.i = sv.i)]_vars
    /\ [][sv.status = "diverged" => sv' = sv]_vars

\* C7 witness: the call diverged, after at least one iteration, on a
\* finite update x2 <= 0
DivergedOnNonPositive ==
    /\ sv.status = "diverged"
    /\ sv.i >= 1
    /\ sv.f1 # sv.f0

\* C8, as claimed: a returned call has |f(x1)| < tolerance, and a call that
\* fails with the not-converged error has used up its budget without any
\* point it evaluated meeting the tolerance.
NotConvergedOnlyWithoutHit ==
    /\ sv.status = "returned" => Abs(sv.f1) < Tolerance
    /\ sv.status = "notConverged" =>
          /\ sv.i = sp.maxIter
          /\ \A k \in 1..Len(sv.fs) : Abs(sv.fs[k]) >= Tolerance

----------------------------------------------------------------------------
(* Properties of the component's state *)

\* C11, as claimed: while a solve is pending the caller can still handle an
\* input change and a further runSolver, and there is a step of the
\* component that takes a pending solve away without any delivery for it.
SolveIsCancellable ==
    timers # <<>> =>
       /\ ENABLED handleInputChange
       /\ runs < MaxRuns => ENABLED runSolver
       /\ ENABLED (Next /\ Len(timers') < Len(timers) /\ reports' = reports)

\* C15, as claimed: results and error are never both non-null.
ResultsOrErrorNotBoth == ~(results # Null /\ error # NoMessage)

\* C16, as claimed: isLoading is true whenever a solve is scheduled or
\* awaits the delivery of its outcome.
LoadingWhilePending == timers # <<>> => isLoading

\* C17: a solve whose two seed trials (V% = 17.0 and 17.2) both fail makes
\* no third trial: the search ends with the divergence error after exactly
\* two evaluations, both with the value Sentinel, and the solve posts that
\* error and no result.
BothSeedsFailDiverges ==
    \A t \in PostedTimers :
       (~Trial(t, 1).ok /\ ~Trial(t, 2).ok) =>
          LET s == t.outcome.search
          IN  /\ s.evals = <<InitialGuess - SeedOffset,
                             InitialGuess + SeedOffset>>
              /\ s.fs = <<Sentinel, Sentinel>>
              /\ s.status = "diverged"
              /\ t.outcome.kind = "error"
              /\ t.outcome.message = "diverged"

\* C17 witness: a solve on zero feed copper has posted its outcome after
\* both seed trials failed
BothSeedsFailed ==
    \E t \in PostedTimers :
       /\ t.inputs.plsCu = 0
       /\ ~Trial(t, 1).ok /\ ~Trial(t, 2).ok
       /\ t.outcome.search.i = 0

\* the x and y of the stage record points of a circuit result
StagePoints(c) ==
    {c.stage1[n] : n \in DOMAIN c.stage1} \cup
    {c.stage2[n] : n \in DOMAIN c.stage2}

\* the load-bearing concentrations of a result: LO, SO of both circuits,
\* the raffinate and the coordinates of every stage record point
LoadBearing(r) ==
    {r.extraction.lo, r.extraction.so, r.stripping.so, r.extraction.raff}
       \cup {p[1] : p \in StagePoints(r.extraction) \cup StagePoints(r.stripping)}
       \cup {p[2] : p \in StagePoints(r.extraction) \cup StagePoints(r.stripping)}

\* C13, as claimed: no result that is posted or displayed holds a negative
\* load-bearing concentration.
NoNegativeConcentration ==
    /\ results.ok => \A v \in LoadBearing(results) : v >= 0
    /\ \A t \in PostedTimers :
          (t.outcome.kind = "results" /\ t.outcome.finalResults.ok) =>
             \A v \in LoadBearing(t.outcome.finalResults) : v >= 0

====
